---- MODULE Spec2Model ----
(***************************************************************************)
(* Model of src/index.js: an express service that provisions Cloudflare    *)
(* custom hostnames and caches their SSL status in the sqlite table        *)
(* ssl_records.                                                            *)
(*                                                                         *)
(* Node runs every handler to its next await without interruption, so one  *)
(* action is one such run: the arrival of a request up to its first        *)
(* await, or the continuation that an answer of Cloudflare (or the expiry  *)
(* of the retry timer) resumes.  Handlers of different requests interleave *)
(* only at their awaits.  The order of the calls made inside one run is    *)
(* kept in the task's log.                                                 *)
(*                                                                         *)
(* No handler reads a timestamp, so the clock decides nothing but the      *)
(* values of created_at and updated_at.  Spec is the service with the      *)
(* requests of its clients interleaving, all within one second of the      *)
(* clock; SpecClock lets the clock run under requests handled one at a     *)
(* time, SpecRace under the writing requests of one client and the         *)
(* POST /ssl of a second one; SpecPoll is fetchCloudflareStatus called on  *)
(* its own; FairSpec and LiveSpec are Spec with the fairness of Node's     *)
(* event loop.                                                             *)
(***************************************************************************)
EXTENDS Integers, Sequences, FiniteSets, TLC

\* ---------------------------------------------------------------- bounds
MaxTime == 1         \* CURRENT_TIMESTAMP moves through 0..MaxTime
MaxAttempts == 3     \* largest retries argument tried on fetchCloudflareStatus alone

\* ------------------------------------------------------ program constants
CreateRetries == 3
RecheckRetries == 3

\* ------------------------------------------------------------ input sets
Hostnames == {"a.com", "b.com"}
Ids == {"id1", "id2"}
Statuses == {"pending", "active"}
DeleteResults == {"deleted", "partial"}
NoHostname == "undefined"
NoId == "undefined"
\* the requests (with their background work) in progress at once
Slots == {1, 2}

VARIABLES db, tasks, now
vars == <<db, tasks, now>>

\* ------------------------------------------------------------ the table
\* CREATE TABLE ssl_records: id is the primary key, hostname is UNIQUE.
Row(id, hostname, status, created, updated) ==
  [id |-> id, hostname |-> hostname, status |-> status,
   created_at |-> created, updated_at |-> updated]

\* (variant: the replacement resolves a conflict on the primary key only)
InsertOrReplaceById(d, id, hostname, status, t) ==
  {r \in d : r.id # id} \cup {Row(id, hostname, status, t, t)}

\* INSERT OR REPLACE INTO ssl_records (id, hostname, status, updated_at)
\* VALUES (?, ?, ?, CURRENT_TIMESTAMP): sqlite first deletes every row that
\* conflicts on the primary key or on the unique hostname, then inserts the
\* new row; created_at is not in the column list and takes its default,
\* CURRENT_TIMESTAMP.
InsertOrReplace(d, id, hostname, status, t) ==
  {r \in d : r.id # id /\ r.hostname # hostname}
    \cup {Row(id, hostname, status, t, t)}

\* (variant: the statement is an INSERT OR REPLACE of id, status and
\* updated_at, which writes a row, without hostname, also when none has the id)
UpsertStatusStamped(d, id, status, t) ==
  {r \in d : r.id # id} \cup {Row(id, NoHostname, status, t, t)}

\* (variant: the statement writes only a row no poll has written yet,
\* WHERE id = ? AND status = 'pending')
UpdateStatusStampedOnce(d, id, status, t) ==
  {IF r.id = id /\ r.status = "pending"
   THEN [r EXCEPT !.status = status, !.updated_at = t] ELSE r : r \in d}

\* (variant: the statement has no WHERE clause)
UpdateStatusStampedAll(d, id, status, t) ==
  {[r EXCEPT !.status = status, !.updated_at = t] : r \in d}

\* (variant: the statement sets updated_at only)
UpdateStampOnly(d, id, status, t) ==
  {IF r.id = id THEN [r EXCEPT !.updated_at = t] ELSE r : r \in d}

\* UPDATE ssl_records SET status = ?, updated_at = CURRENT_TIMESTAMP WHERE id = ?
UpdateStatusStamped(d, id, status, t) ==
  {IF r.id = id THEN [r EXCEPT !.status = status, !.updated_at = t] ELSE r : r \in d}

\* (variant: the statement is an INSERT OR REPLACE of id and status, which
\* writes a row, without hostname, also when none has the id)
UpsertStatus(d, id, status) ==
  {r \in d : r.id # id} \cup {Row(id, NoHostname, status, 0, 0)}

\* UPDATE ssl_records SET status = ? WHERE id = ?
UpdateStatus(d, id, status) ==
  {IF r.id = id THEN [r EXCEPT !.status = status] ELSE r : r \in d}

\* (variant: the statement removes nothing)
DeleteNothing(d, id) == d

\* DELETE FROM ssl_records WHERE id = ?
DeleteById(d, id) == {r \in d : r.id # id}

\* SELECT * FROM ssl_records WHERE hostname = ?   (the rows .get() chooses from)
SelectByHostname(d, hostname) == {r \in d : r.hostname = hostname}

SelectById(d, id) == {r \in d : r.id = id}

\* (variant: ORDER BY created_at, oldest first)
SelectAllAscending(d) ==
  {s \in [1..Cardinality(d) -> d] :
     /\ \A i, j \in 1..Cardinality(d) : i # j => s[i] # s[j]
     /\ \A i, j \in 1..Cardinality(d) : i < j => s[i].created_at <= s[j].created_at}

\* SELECT * FROM ssl_records ORDER BY created_at DESC: every ordering of the
\* rows whose created_at does not increase (ties are in no fixed order).
SelectAllOrdered(d) ==
  {s \in [1..Cardinality(d) -> d] :
     /\ \A i, j \in 1..Cardinality(d) : i # j => s[i] # s[j]
     /\ \A i, j \in 1..Cardinality(d) : i < j => s[i].created_at >= s[j].created_at}

\* ------------------------------------------------------------ responses
NoResp == [code |-> 0, success |-> FALSE, data |-> "none"]
Reply(code, success, data) == [code |-> code, success |-> success, data |-> data]
NoAnswer == [ok |-> FALSE, status |-> "none"]

\* ---------------------------------------------------------------- tasks
\* A task is one request being handled: kind names the route, pc the await
\* it is suspended at, hostname/id/i/retries the locals of the handler and of
\* fetchCloudflareStatus, answer the reply of Cloudflare on its way back,
\* resp the response sent to the client (code 0: none yet), log the calls
\* made so far, in order.  undisturbed is history: it holds from the INSERT
\* of POST /ssl for as long as no other request wrote or deleted that row
\* (with it the id, and the answer the background function stored, are kept
\* when the handler is over).
IdleTask ==
  [kind |-> "idle", pc |-> "idle", hostname |-> NoHostname, id |-> NoId,
   i |-> 0, retries |-> 0, answer |-> NoAnswer, resp |-> NoResp, log |-> <<>>,
   undisturbed |-> FALSE]

Free(t) == tasks[t].pc \in {"idle", "done"}

\* suspended inside fetchCloudflareStatus
Polling(tk) == tk.pc \in {"awaitGet", "gotAnswer", "sleep"}

Count(log, e) == Cardinality({k \in 1..Len(log) : log[k] = e})

\* a handler is over: its closure is gone, the response and the log remain
Finish(tk, resp, events) ==
  [IdleTask EXCEPT !.kind = tk.kind, !.pc = "done", !.retries = tk.retries,
                   !.resp = resp, !.log = tk.log \o events]

\* what .run() of an UPDATE ... WHERE id = ? reports: info.changes is 1 when
\* a row has that id, and 0 (nothing written) when none has
WriteEvent(d, id) == IF SelectById(d, id) # {} THEN "store_write" ELSE "store_miss"

\* ids of the rows a statement on id (and hostname) writes or removes
Touched(d, id, hostname) == {r.id : r \in {x \in d : x.id = id \/ x.hostname = hostname}}

\* task t wrote or removed the rows ids: the other tasks' rows are disturbed
Disturb(ts, t, ids) ==
  [c \in Slots |->
     IF c # t /\ ts[c].undisturbed /\ ts[c].id \in ids
     THEN IF ts[c].pc = "done"
          THEN [ts[c] EXCEPT !.undisturbed = FALSE, !.id = NoId, !.answer = NoAnswer]
          ELSE [ts[c] EXCEPT !.undisturbed = FALSE]
     ELSE ts[c]]

Init ==
  /\ db = {}
  /\ tasks = [t \in Slots |-> IdleTask]
  /\ now = 0

\* CURRENT_TIMESTAMP moves on by a second
Tick ==
  /\ now < MaxTime
  /\ now' = now + 1
  /\ UNCHANGED <<db, tasks>>

\* --------------------------------------------------- fetchCloudflareStatus
\* fetchCloudflareStatus(id, retries) entered: i = 0 and the first
\* axios.get is sent.
PollStart(tk, id, retries) ==
  [tk EXCEPT !.pc = "awaitGet", !.id = id, !.i = 0, !.retries = retries,
             !.answer = NoAnswer, !.log = Append(@, "get_call")]

\* Cloudflare answers the pending GET custom_hostnames/:id of task t with the
\* record as it is at that moment; the answer then travels back, so that the
\* handler may use it later than a younger answer to another task.
AuthorityGet(t) ==
  /\ tasks[t].pc = "awaitGet"
  /\ \E a \in [ok : {TRUE}, status : Statuses] :
       tasks' = [tasks EXCEPT ![t].pc = "gotAnswer", ![t].answer = a]
  /\ UNCHANGED <<db, now>>

\* (variant: the catch never rethrows)
PollRetryForever(t) ==
  /\ tasks[t].pc = "awaitGet"
  /\ tasks' = [tasks EXCEPT ![t].pc = "sleep",
                            ![t].log = @ \o <<"get_fail", "sleep">>]
  /\ UNCHANGED <<db, now>>

\* axios.get rejects with i < retries - 1: the catch warns, then sleeps 60 s
PollRetry(t) ==
  /\ tasks[t].pc = "awaitGet"
  /\ tasks[t].i # tasks[t].retries - 1
  /\ tasks' = [tasks EXCEPT ![t].pc = "sleep",
                            ![t].log = @ \o <<"get_fail", "sleep">>]
  /\ UNCHANGED <<db, now>>

\* (variant: the loop repeats the attempt without counting it)
SleepElapsedSameAttempt(t) ==
  /\ tasks[t].pc = "sleep"
  /\ tasks' = [tasks EXCEPT ![t].pc = "awaitGet",
                            ![t].log = Append(@, "get_call")]
  /\ UNCHANGED <<db, now>>

\* the 60 s timer fires: i++, and the next axios.get is sent
SleepElapsed(t) ==
  /\ tasks[t].pc = "sleep"
  /\ tasks' = [tasks EXCEPT ![t].pc = "awaitGet", ![t].i = @ + 1,
                            ![t].log = Append(@, "get_call")]
  /\ UNCHANGED <<db, now>>

\* the answer arrives: fetchCloudflareStatus returns response.data.result
PollReturns(t) == tasks[t].pc = "gotAnswer" /\ tasks[t].answer.ok

\* (variant: the catch rethrows whatever the attempt)
PollThrowsAtOnce(t) == tasks[t].pc = "awaitGet"

\* axios.get rejects with i = retries - 1: the catch rethrows the error
PollThrows(t) ==
  /\ tasks[t].pc = "awaitGet"
  /\ tasks[t].i = tasks[t].retries - 1

\* fetchCloudflareStatus(id, retries) called on its own, for any id and any
\* retries >= 1
PollCall(t) ==
  /\ Free(t)
  /\ \E id \in Ids, retries \in 1..MaxAttempts :
       tasks' = [tasks EXCEPT ![t] =
                   PollStart([IdleTask EXCEPT !.kind = "poll"], id, retries)]
  /\ UNCHANGED <<db, now>>

\* ... and its caller receives the record returned
PollResolves(t) ==
  /\ tasks[t].kind = "poll"
  /\ PollReturns(t)
  /\ tasks' = [tasks EXCEPT ![t] =
       Finish(tasks[t],
              Reply(200, TRUE, [id |-> tasks[t].id, status |-> tasks[t].answer.status]),
              <<"get_ok", "return">>)]
  /\ UNCHANGED <<db, now>>

\* ... or the error thrown
PollExhausts(t) ==
  /\ tasks[t].kind = "poll"
  /\ PollThrows(t)
  /\ tasks' = [tasks EXCEPT ![t] =
       Finish(tasks[t], Reply(500, FALSE, "AuthorityError"), <<"get_fail", "throw">>)]
  /\ UNCHANGED <<db, now>>

\* ------------------------------------------------------------ POST /ssl
\* request arrives; without a hostname it is answered 400, otherwise the
\* POST custom_hostnames is sent to Cloudflare.
CreateRequest(t) ==
  /\ Free(t)
  /\ \E h \in Hostnames \cup {NoHostname} :
       tasks' = [tasks EXCEPT ![t] =
         IF h = NoHostname
         THEN Finish([IdleTask EXCEPT !.kind = "create"],
                     Reply(400, FALSE, "hostname required"), <<"response">>)
         ELSE [IdleTask EXCEPT !.kind = "create", !.pc = "awaitCreate",
                 !.hostname = h, !.log = <<"create_call">>]]
  /\ UNCHANGED <<db, now>>

\* axios.post rejects: the catch answers 500
CreateFails(t) ==
  /\ tasks[t].pc = "awaitCreate"
  /\ tasks' = [tasks EXCEPT ![t] =
       Finish(tasks[t], Reply(500, FALSE, "AuthorityError"), <<"response">>)]
  /\ UNCHANGED <<db, now>>

\* (variant: the status Cloudflare reported is stored)
CreateStatusReported(ssl) == ssl.status

\* the status .run(ssl.id, ssl.hostname, "pending") stores
CreateStatus(ssl) == "pending"

\* (variant: the handler awaits the poll before it answers)
CreateRunAwaitingPoll(tk, ssl) ==
  PollStart([tk EXCEPT !.hostname = NoHostname,
                       !.undisturbed = TRUE,
                       !.log = @ \o <<"store_write">>],
            ssl.id, CreateRetries)

\* what the handler does after its INSERT: res.json({...ssl, status:
\* "pending"}), then the background function is called and runs up to its
\* first axios.get.  Of the record answered, as of every record of Cloudflare
\* passed on to a client, id and status are kept; the handler's hostname is
\* from here on used in console messages only.
CreateRun(tk, ssl) ==
  PollStart([tk EXCEPT !.hostname = NoHostname,
                       !.undisturbed = TRUE,
                       !.resp = Reply(200, TRUE, [id |-> ssl.id, status |-> "pending"]),
                       !.log = @ \o <<"store_write", "response">>],
            ssl.id, CreateRetries)

\* axios.post resolves with ssl = createRes.data.result: the row is written
\* with status "pending", the client is answered, and the background
\* function runs up to its first axios.get.
CreateSucceeds(t) ==
  /\ tasks[t].pc = "awaitCreate"
  /\ \E ssl \in [id : Ids, hostname : Hostnames, status : Statuses] :
       /\ db' = InsertOrReplace(db, ssl.id, ssl.hostname, CreateStatus(ssl), now)
       /\ tasks' = Disturb([tasks EXCEPT ![t] = CreateRun(tasks[t], ssl)],
                           t, Touched(db, ssl.id, ssl.hostname))
  /\ UNCHANGED now

\* background: fetchCloudflareStatus returned, UPDATE the status
BackgroundResolves(t) ==
  /\ tasks[t].kind = "create"
  /\ PollReturns(t)
  /\ db' = UpdateStatusStamped(db, tasks[t].id, tasks[t].answer.status, now)
  /\ UNCHANGED now
  /\ tasks' = Disturb(
       [tasks EXCEPT ![t] =
          [Finish(tasks[t], tasks[t].resp, <<"get_ok", WriteEvent(db, tasks[t].id)>>)
             EXCEPT !.undisturbed = tasks[t].undisturbed,
                    !.id = IF tasks[t].undisturbed THEN tasks[t].id ELSE NoId,
                    !.answer = IF tasks[t].undisturbed THEN tasks[t].answer ELSE NoAnswer]],
       t, Touched(db, tasks[t].id, NoHostname))

\* (variant: the catch records the failure in the row)
BackgroundExhaustsMarksRow(t) ==
  /\ tasks[t].kind = "create"
  /\ PollThrows(t)
  /\ db' = UpdateStatusStamped(db, tasks[t].id, "failed", now)
  /\ tasks' = [tasks EXCEPT ![t] =
       Finish(tasks[t], tasks[t].resp, <<"get_fail", WriteEvent(db, tasks[t].id)>>)]
  /\ UNCHANGED now

\* background: fetchCloudflareStatus threw, the catch only logs
BackgroundExhausts(t) ==
  /\ tasks[t].kind = "create"
  /\ PollThrows(t)
  /\ tasks' = [tasks EXCEPT ![t] = Finish(tasks[t], tasks[t].resp, <<"get_fail">>)]
  /\ UNCHANGED <<db, now>>

\* --------------------------------------------------- GET /ssl/:hostname
\* request arrives; a local row is returned as it is, otherwise the lookup
\* GET custom_hostnames?hostname= is sent to Cloudflare.
ReadRequest(t) ==
  /\ Free(t)
  /\ \E h \in Hostnames :
       tasks' = [tasks EXCEPT ![t] =
         IF SelectByHostname(db, h) # {}
         THEN Finish([IdleTask EXCEPT !.kind = "read"],
                     Reply(200, TRUE, CHOOSE r \in SelectByHostname(db, h) : TRUE),
                     <<"response">>)
         ELSE [IdleTask EXCEPT !.kind = "read", !.pc = "awaitLookup",
                 !.hostname = h, !.log = <<"lookup_call">>]]
  /\ UNCHANGED <<db, now>>

\* (variant: the record found at Cloudflare is written back)
ReadLookupCaches(t) ==
  /\ tasks[t].pc = "awaitLookup"
  /\ \E x \in Ids, s \in Statuses :
       /\ db' = InsertOrReplace(db, x, tasks[t].hostname, s, now)
       /\ tasks' = [tasks EXCEPT ![t] =
            Finish(tasks[t], Reply(200, TRUE, [id |-> x, status |-> s]), <<"response">>)]
  /\ UNCHANGED now

\* the lookup answers: a first result, an empty result (404) or an error (500)
ReadLookupAnswers(t) ==
  /\ tasks[t].pc = "awaitLookup"
  /\ \E r \in {Reply(200, TRUE, [id |-> x, status |-> s]) : x \in Ids, s \in Statuses}
              \cup {Reply(404, FALSE, "Not found"), Reply(500, FALSE, "AuthorityError")} :
       tasks' = [tasks EXCEPT ![t] = Finish(tasks[t], r, <<"response">>)]
  /\ UNCHANGED <<db, now>>

\* ------------------------------------------- GET /ssl/:hostname/recheck
\* (variant: without a local row the handler polls Cloudflare by hostname)
RecheckHostnameAsksCloudflare(t, h) ==
  /\ Free(t)
  /\ tasks' = [tasks EXCEPT ![t] =
       PollStart([IdleTask EXCEPT !.kind = "recheck"],
                 IF SelectByHostname(db, h) = {} THEN h
                 ELSE (CHOOSE r \in SelectByHostname(db, h) : TRUE).id,
                 RecheckRetries)]
  /\ UNCHANGED <<db, now>>

\* the request for hostname h arrives; without a local row it is answered
\* 404, otherwise fetchCloudflareStatus(record.id, 3) is entered.
RecheckHostname(t, h) ==
  /\ Free(t)
  /\ tasks' = [tasks EXCEPT ![t] =
       IF SelectByHostname(db, h) = {}
       THEN Finish([IdleTask EXCEPT !.kind = "recheck"],
                   Reply(404, FALSE, "Not found in DB"), <<"response">>)
       ELSE PollStart([IdleTask EXCEPT !.kind = "recheck"],
                      (CHOOSE r \in SelectByHostname(db, h) : TRUE).id,
                      RecheckRetries)]
  /\ UNCHANGED <<db, now>>

RecheckRequest(t) == \E h \in Hostnames : RecheckHostname(t, h)

\* fetchCloudflareStatus returned: UPDATE the status, answer with the record
RecheckResolves(t) ==
  /\ tasks[t].kind = "recheck"
  /\ PollReturns(t)
  /\ db' = UpdateStatusStamped(db, tasks[t].id, tasks[t].answer.status, now)
  /\ UNCHANGED now
  /\ tasks' = Disturb(
       [tasks EXCEPT ![t] =
          Finish(tasks[t],
                 Reply(200, TRUE, [id |-> tasks[t].id, status |-> tasks[t].answer.status]),
                 <<"get_ok", WriteEvent(db, tasks[t].id), "response">>)],
       t, Touched(db, tasks[t].id, NoHostname))

\* fetchCloudflareStatus threw: the catch answers 500
RecheckExhausts(t) ==
  /\ tasks[t].kind = "recheck"
  /\ PollThrows(t)
  /\ tasks' = [tasks EXCEPT ![t] =
       Finish(tasks[t], Reply(500, FALSE, "AuthorityError"), <<"get_fail", "response">>)]
  /\ UNCHANGED <<db, now>>

\* ----------------------------------------------------------- PUT /ssl/:id
\* request arrives: the PATCH custom_hostnames/:id is sent
UpdateRequest(t) ==
  /\ Free(t)
  /\ \E id \in Ids :
       tasks' = [tasks EXCEPT ![t] =
         [IdleTask EXCEPT !.kind = "update", !.pc = "awaitPatch", !.id = id,
            !.log = <<"patch_call">>]]
  /\ UNCHANGED <<db, now>>

\* axios.patch resolves with updated = response.data.result
UpdateSucceeds(t) ==
  /\ tasks[t].pc = "awaitPatch"
  /\ \E s \in Statuses :
       /\ db' = UpdateStatus(db, tasks[t].id, s)
       /\ tasks' = Disturb(
            [tasks EXCEPT ![t] =
               Finish(tasks[t], Reply(200, TRUE, [id |-> tasks[t].id, status |-> s]),
                      <<WriteEvent(db, tasks[t].id), "response">>)],
            t, Touched(db, tasks[t].id, NoHostname))
  /\ UNCHANGED now

\* axios.patch rejects: the catch answers 500
UpdateFails(t) ==
  /\ tasks[t].pc = "awaitPatch"
  /\ tasks' = [tasks EXCEPT ![t] =
       Finish(tasks[t], Reply(500, FALSE, "AuthorityError"), <<"response">>)]
  /\ UNCHANGED <<db, now>>

\* -------------------------------------------------------- DELETE /ssl/:id
\* request arrives: the DELETE custom_hostnames/:id is sent
DeleteRequest(t) ==
  /\ Free(t)
  /\ \E id \in Ids :
       tasks' = [tasks EXCEPT ![t] =
         [IdleTask EXCEPT !.kind = "delete", !.pc = "awaitDelete", !.id = id,
            !.log = <<"delete_call">>]]
  /\ UNCHANGED <<db, now>>

\* axios.delete resolves, whatever response.data.result holds
DeleteSucceeds(t) ==
  /\ tasks[t].pc = "awaitDelete"
  /\ db' = DeleteById(db, tasks[t].id)
  /\ \E result \in DeleteResults :
       tasks' = Disturb(
         [tasks EXCEPT ![t] =
            Finish(tasks[t], Reply(200, TRUE, result), <<"store_delete", "response">>)],
         t, Touched(db, tasks[t].id, NoHostname))
  /\ UNCHANGED now

\* (variant: the row is removed also when Cloudflare refused)
DeleteFailsRemovesRow(t) ==
  /\ tasks[t].pc = "awaitDelete"
  /\ db' = DeleteById(db, tasks[t].id)
  /\ tasks' = [tasks EXCEPT ![t] =
       Finish(tasks[t], Reply(500, FALSE, "AuthorityError"), <<"response">>)]
  /\ UNCHANGED now

\* axios.delete rejects: the catch answers 500
DeleteFails(t) ==
  /\ tasks[t].pc = "awaitDelete"
  /\ tasks' = [tasks EXCEPT ![t] =
       Finish(tasks[t], Reply(500, FALSE, "AuthorityError"), <<"response">>)]
  /\ UNCHANGED <<db, now>>

\* --------------------------------------------------------------- GET /ssl
ListRequest(t) ==
  /\ Free(t)
  /\ \E rows \in SelectAllOrdered(db) :
       tasks' = [tasks EXCEPT ![t] =
         Finish([IdleTask EXCEPT !.kind = "list"], Reply(200, TRUE, rows), <<"response">>)]
  /\ UNCHANGED <<db, now>>

\* ------------------------------------------------------------ the service
Step(t) ==
    \/ CreateRequest(t) \/ CreateFails(t) \/ CreateSucceeds(t)
    \/ BackgroundResolves(t) \/ BackgroundExhausts(t)
    \/ ReadRequest(t) \/ ReadLookupAnswers(t)
    \/ RecheckRequest(t) \/ RecheckResolves(t) \/ RecheckExhausts(t)
    \/ UpdateRequest(t) \/ UpdateSucceeds(t) \/ UpdateFails(t)
    \/ DeleteRequest(t) \/ DeleteSucceeds(t) \/ DeleteFails(t)
    \/ ListRequest(t)
    \/ AuthorityGet(t) \/ PollRetry(t) \/ SleepElapsed(t)

\* the requests of all clients, handled within one second of the clock
Next == \E t \in Slots : Step(t)

Spec == Init /\ [][Next]_vars

\* Node runs the continuation of a handler whose awaited answer has arrived
FairSpec ==
  Spec /\ \A t \in Slots : WF_vars(BackgroundResolves(t) \/ RecheckResolves(t))

\* the step a task inside fetchCloudflareStatus waits for: its axios.get
\* settles (it resolves or it rejects), its 60 s timer fires, or the
\* continuation that the answer resumes runs.  The task waits for one of them
\* at a time.
PollStep(t) ==
  \/ AuthorityGet(t) \/ PollRetry(t) \/ BackgroundExhausts(t) \/ RecheckExhausts(t)
  \/ SleepElapsed(t)
  \/ BackgroundResolves(t) \/ RecheckResolves(t)

\* every GET settles, every timer fires, and Node runs the continuations
LiveSpec == Spec /\ \A t \in Slots : WF_vars(PollStep(t))

\* the requests handled one at a time, while the clock runs
NextClock == Tick \/ Step(1)

SpecClock == Init /\ [][NextClock]_vars

\* the steps of a POST /ssl and of its background function
CreateStep(t) ==
    \/ CreateRequest(t) \/ CreateFails(t) \/ CreateSucceeds(t)
    \/ BackgroundResolves(t) \/ BackgroundExhausts(t)
    \/ AuthorityGet(t) \/ PollRetry(t) \/ SleepElapsed(t)

\* the steps of the handlers that hold a statement writing the table
WriteStep(t) ==
    \/ CreateStep(t)
    \/ RecheckRequest(t) \/ RecheckResolves(t) \/ RecheckExhausts(t)
    \/ UpdateRequest(t) \/ UpdateSucceeds(t) \/ UpdateFails(t)
    \/ DeleteRequest(t) \/ DeleteSucceeds(t) \/ DeleteFails(t)

\* the clock runs while one client sends requests that write, one after the
\* other, and a second one POST /ssl
NextRace == Tick \/ WriteStep(1) \/ CreateStep(2)

SpecRace == Init /\ [][NextRace]_vars

\* fetchCloudflareStatus alone, called with every retries in 1..MaxAttempts
NextPoll ==
  \E t \in Slots :
    \/ PollCall(t) \/ AuthorityGet(t) \/ PollRetry(t) \/ SleepElapsed(t)
    \/ PollResolves(t) \/ PollExhausts(t)

SpecPoll == Init /\ [][NextPoll]_vars

\* ================================================================ claims

\* C1: the table never holds two rows with one id or two rows with one
\* hostname; the row a POST /ssl wrote is, for as long as no other request
\* replaced or removed it, the one row of its id and the one row of its
\* hostname, however many POST /ssl carried that hostname before.
C1_OneRowPerKey ==
  /\ \A r1, r2 \in db : (r1.id = r2.id \/ r1.hostname = r2.hostname) => r1 = r2
  /\ \A t \in Slots : tasks[t].undisturbed =>
       \E r \in db : /\ r.id = tasks[t].id
                     /\ Cardinality(SelectById(db, r.id)) = 1
                     /\ Cardinality(SelectByHostname(db, r.hostname)) = 1

\* two POST /ssl got different ids, the later one replaced the row of the
\* earlier one, and one row is left
C1_Witness ==
  \E t, u \in Slots :
    /\ tasks[t].kind = "create" /\ Polling(tasks[t]) /\ ~tasks[t].undisturbed
    /\ tasks[u].kind = "create" /\ Polling(tasks[u]) /\ tasks[u].undisturbed
    /\ tasks[t].id # tasks[u].id
    /\ Cardinality(db) = 1

\* slot r takes up a GET /ssl/h in this step
ReadsHostname(r, h) ==
  /\ Free(r)
  /\ tasks'[r] # tasks[r]
  /\ tasks'[r].kind = "read"
  /\ IF tasks'[r].pc = "awaitLookup" THEN tasks'[r].hostname = h
     ELSE tasks'[r].resp.data.hostname = h

\* C2: a GET /ssl/h handled after a POST /ssl wrote the row of h and before
\* its background function wrote, no other request having written or removed
\* that row, answers 200 with a record of status "pending".
C2_ReadShowsPending ==
  [][\A c, r \in Slots : \A row \in db :
       (tasks[c].undisturbed /\ Polling(tasks[c]) /\ row.id = tasks[c].id
          /\ ReadsHostname(r, row.hostname))
         => /\ tasks'[r].pc = "done"
            /\ tasks'[r].resp.code = 200
            /\ tasks'[r].resp.data.id = row.id
            /\ tasks'[r].resp.data.status = "pending"]_vars

\* a read answered from the table with the pending row of a POST /ssl that is
\* still polling
C2_Witness ==
  \E c, r \in Slots :
    /\ tasks[c].undisturbed /\ Polling(tasks[c])
    /\ tasks[r].kind = "read" /\ tasks[r].log = <<"response">>
    /\ tasks[r].resp.data.id = tasks[c].id
    /\ tasks[r].resp.data.status = "pending"

\* C3: a POST /ssl that Cloudflare accepted calls Cloudflare, writes the row
\* with status "pending", answers the client with status "pending" and only
\* then sends the first GET of the background poll: while the create call is
\* pending nothing is written or answered, and whenever a GET of the poll has
\* been sent the log starts create_call, store_write, response, get_call and
\* the one response, a 200, is the third event.
C3_CreateOrder ==
  \A t \in Slots : tasks[t].kind = "create" =>
    /\ tasks[t].pc = "awaitCreate" =>
         tasks[t].log = <<"create_call">> /\ tasks[t].resp.code = 0
    /\ (Polling(tasks[t]) \/ Count(tasks[t].log, "get_call") > 0) =>
         /\ Len(tasks[t].log) >= 4
         /\ SubSeq(tasks[t].log, 1, 4) =
              <<"create_call", "store_write", "response", "get_call">>
         /\ Count(tasks[t].log, "response") = 1
         /\ tasks[t].resp.code = 200
         /\ tasks[t].resp.success
         /\ tasks[t].resp.data.status = "pending"
    /\ (tasks[t].undisturbed /\ tasks[t].pc = "awaitGet" /\ tasks[t].i = 0) =>
         \E r \in db : r.id = tasks[t].id /\ r.status = "pending"

\* a POST /ssl whose background poll needed all three attempts
C3_Witness ==
  \E t \in Slots :
    /\ tasks[t].kind = "create" /\ tasks[t].pc = "done"
    /\ tasks[t].resp.code = 200
    /\ Count(tasks[t].log, "get_call") = 3
    /\ Count(tasks[t].log, "get_ok") = 1

\* C4: once the answer of a successful GET of the background poll of a
\* POST /ssl is on its way with status s, then, unless another request writes
\* or removes the row meanwhile, the background function comes to write s to
\* the row; and from that write on, for as long as no other request writes or
\* removes the row, every GET /ssl/h for its hostname answers 200 with
\* status s.
C4_EventuallyReconciled ==
  /\ [][\A c \in Slots :
          (tasks[c].kind = "create" /\ tasks[c].pc = "gotAnswer"
             /\ tasks[c].undisturbed /\ tasks'[c].pc = "done")
            => /\ \E row \in db' : /\ row.id = tasks[c].id
                                   /\ row.status = tasks[c].answer.status
               /\ tasks'[c].undisturbed
               /\ tasks'[c].id = tasks[c].id
               /\ tasks'[c].answer = tasks[c].answer]_vars
  /\ [][\A c, r \in Slots : \A row \in db :
          (tasks[c].undisturbed /\ tasks[c].pc = "done" /\ row.id = tasks[c].id
             /\ ReadsHostname(r, row.hostname))
            => /\ tasks'[r].pc = "done"
               /\ tasks'[r].resp.code = 200
               /\ tasks'[r].resp.data.id = row.id
               /\ tasks'[r].resp.data.status = tasks[c].answer.status]_vars
  /\ \A c \in Slots :
       (tasks[c].kind = "create" /\ tasks[c].pc = "gotAnswer" /\ tasks[c].undisturbed)
         ~> (tasks[c].pc = "done" \/ ~tasks[c].undisturbed)

\* a read answered "active" from the row the background function of a
\* POST /ssl has written, after a failed first attempt
C4_Witness ==
  \E c, r \in Slots :
    /\ tasks[c].kind = "create" /\ tasks[c].pc = "done" /\ tasks[c].undisturbed
    /\ tasks[c].answer.status = "active"
    /\ Count(tasks[c].log, "get_fail") = 1
    /\ tasks[r].kind = "read" /\ tasks[r].log = <<"response">>
    /\ tasks[r].resp.data.id = tasks[c].id
    /\ tasks[r].resp.data.status = "active"

\* C5: a recheck of a hostname with a local row answers nothing while it
\* polls; it answers when a GET succeeded or when three GETs failed; after
\* three failures the answer is a 500 with success false and the table is as
\* it was, after a success it is the 200 with the record fetched.
C5_RecheckSynchronous ==
  [][\A t \in Slots :
       /\ (tasks'[t].kind = "recheck" /\ Polling(tasks'[t])) => tasks'[t].resp.code = 0
       /\ (tasks[t].kind = "recheck" /\ Polling(tasks[t]) /\ tasks'[t].pc = "done") =>
            /\ tasks'[t].log[Len(tasks'[t].log)] = "response"
            /\ Count(tasks'[t].log, "response") = 1
            /\ \/ Count(tasks'[t].log, "get_ok") = 1
               \/ /\ Count(tasks'[t].log, "get_call") = 3
                  /\ Count(tasks'[t].log, "get_fail") = 3
            /\ Count(tasks'[t].log, "get_ok") = 0 =>
                 /\ tasks'[t].resp.code = 500
                 /\ ~tasks'[t].resp.success
                 /\ Count(tasks'[t].log, "store_write") = 0
                 /\ db' = db
            /\ Count(tasks'[t].log, "get_ok") = 1 =>
                 /\ tasks'[t].resp.code = 200
                 /\ tasks'[t].resp.data.status = tasks[t].answer.status]_vars

\* a recheck answered 500 after three failed GETs
C5_Witness ==
  \E t \in Slots :
    /\ tasks[t].kind = "recheck" /\ tasks[t].pc = "done"
    /\ tasks[t].resp.code = 500
    /\ Count(tasks[t].log, "get_fail") = 3

\* C6: the steps of a GET /ssl/:hostname that found no local row, the one
\* that sends the lookup and the one that takes its answer (a record, nothing
\* or an error), leave the table as it is; a hostname without a row gets one
\* only in the step in which a POST /ssl writes.
C6_ReadMissWritesNothing ==
  [][/\ \A t \in Slots :
          ((tasks[t].pc = "awaitLookup" \/ tasks'[t].pc = "awaitLookup")
             /\ tasks'[t] # tasks[t]) => db' = db
     /\ \A h \in Hostnames :
          (SelectByHostname(db, h) = {} /\ SelectByHostname(db', h) # {}) =>
             \E t \in Slots : tasks[t].pc = "awaitCreate" /\ Polling(tasks'[t])]_vars

\* a read answered with the record Cloudflare found, and a list answered
\* with no row
C6_Witness ==
  \E t, u \in Slots :
    /\ tasks[t].kind = "read" /\ tasks[t].pc = "done"
    /\ tasks[t].log = <<"lookup_call", "response">>
    /\ tasks[t].resp.code = 200
    /\ tasks[u].kind = "list" /\ DOMAIN tasks[u].resp.data = {}
    /\ db = {}

\* C7: when DELETE /ssl/:id answers 200, that is when axios.delete resolved
\* with whatever result, the table holds no row with that id.
C7_DeleteRemovesRow ==
  [][\A t \in Slots :
       (tasks[t].pc = "awaitDelete" /\ tasks'[t].pc = "done"
          /\ tasks'[t].resp.code = 200)
         => SelectById(db', tasks[t].id) = {}]_vars

\* a delete answered 200 with a partial result took away the row of a
\* POST /ssl that is still polling
C7_Witness ==
  \E t, c \in Slots :
    /\ tasks[t].kind = "delete" /\ tasks[t].pc = "done"
    /\ tasks[t].resp.code = 200 /\ tasks[t].resp.data = "partial"
    /\ tasks[c].kind = "create" /\ Polling(tasks[c]) /\ ~tasks[c].undisturbed
    /\ SelectById(db, tasks[c].id) = {}

\* C8: fetchCloudflareStatus(id, retries) with retries >= 1 has at most one
\* GET outstanding, has sent i + 1 <= retries GETs of which i failed while it
\* runs, returns the record of the first GET that succeeds in the step that
\* takes its answer (also when retries - 1 failures came before), and throws
\* only when retries GETs were sent and all of them failed.
C8_PollBudget ==
  [][\A t \in Slots : tasks'[t] # tasks[t] =>
       /\ Polling(tasks'[t]) =>
            /\ tasks'[t].i + 1 <= tasks'[t].retries
            /\ Count(tasks'[t].log, "get_call") = tasks'[t].i + 1
            /\ Count(tasks'[t].log, "get_ok") = 0
            /\ Count(tasks'[t].log, "get_fail") =
                 IF tasks'[t].pc = "sleep" THEN tasks'[t].i + 1 ELSE tasks'[t].i
       /\ tasks[t].pc = "gotAnswer" =>
            /\ tasks'[t].pc = "done"
            /\ tasks'[t].resp.success
            /\ tasks'[t].resp.data = [id |-> tasks[t].id, status |-> tasks[t].answer.status]
            /\ Count(tasks'[t].log, "get_ok") = 1
            /\ Count(tasks'[t].log, "get_call") = Count(tasks'[t].log, "get_fail") + 1
            /\ Count(tasks'[t].log, "get_call") <= tasks[t].retries
       /\ (tasks[t].pc = "awaitGet" /\ tasks'[t].pc = "done") =>
            /\ ~tasks'[t].resp.success
            /\ Count(tasks'[t].log, "get_ok") = 0
            /\ Count(tasks'[t].log, "get_call") = tasks[t].retries
            /\ Count(tasks'[t].log, "get_fail") = tasks[t].retries]_vars

\* one call returned after retries - 1 failures, another threw after retries
\* failures, both with the largest retries
C8_Witness ==
  \E t, u \in Slots :
    /\ tasks[t].kind = "poll" /\ tasks[t].pc = "done" /\ tasks[t].resp.success
    /\ tasks[t].retries = MaxAttempts
    /\ Count(tasks[t].log, "get_fail") = MaxAttempts - 1
    /\ tasks[u].kind = "poll" /\ tasks[u].pc = "done" /\ ~tasks[u].resp.success
    /\ tasks[u].retries = MaxAttempts
    /\ Count(tasks[u].log, "get_fail") = MaxAttempts

\* C9: a row keeps its created_at for as long as a row with its id is in
\* the table, whatever request writes it.
C9_CreatedAtKept ==
  [][\A r \in db : \A r2 \in db' : r2.id = r.id => r2.created_at = r.created_at]_vars

\* C10: every statement of POST /ssl, of its background function, of the
\* recheck and of PUT /ssl/:id that writes a row leaves that row with
\* updated_at at the time of the statement.
C10_UpdatedAtRefreshed ==
  [][\A t \in Slots :
       (~Free(t) /\ Count(tasks'[t].log, "store_write") > Count(tasks[t].log, "store_write"))
         => \A r \in SelectById(db', IF tasks[t].pc = "awaitCreate"
                                      THEN tasks'[t].id ELSE tasks[t].id) :
              r.updated_at = now]_vars

\* C11 as stated: from the step that gives a hostname a row until the step
\* that leaves it without one, the id of its row does not change, whatever
\* the requests, a second POST /ssl answered with another id included.
C11_IdStable ==
  [][\A r \in db : \A r2 \in db' : r2.hostname = r.hostname => r2.id = r.id]_vars

\* C11, amended: the id of the row of a hostname changes in one step only,
\* the one in which a POST /ssl that Cloudflare answered with a record of that
\* hostname and of another id writes; that step removes the old row, and the
\* new id is the one answered to the client.
C11_IdChangesByCreateOnly ==
  [][\A r \in db : \A r2 \in db' :
       (r2.hostname = r.hostname /\ r2.id # r.id) =>
          /\ r \notin db'
          /\ \E t \in Slots : /\ tasks[t].pc = "awaitCreate"
                               /\ Polling(tasks'[t])
                               /\ tasks'[t].id = r2.id
                               /\ tasks'[t].resp.data.id = r2.id]_vars

\* a second POST /ssl, answered with another id, replaced the row the first
\* one wrote, while the first one waits to retry its poll
C11_Witness ==
  \E t, u \in Slots :
    /\ tasks[t].kind = "create" /\ tasks[t].pc = "sleep" /\ ~tasks[t].undisturbed
    /\ tasks[u].kind = "create" /\ tasks[u].pc = "awaitGet" /\ tasks[u].undisturbed
    /\ tasks[u].id # tasks[t].id
    /\ \A r \in db : r.id = tasks[u].id /\ r.status = "pending"
    /\ db # {}

\* C12 as stated: when a DELETE /ssl/:id has been answered 200 and has left
\* the table without the row a POST /ssl wrote, the write of the background
\* function of that POST /ssl, still polling then, leaves a row with that id.
C12_DeleteResurrects ==
  [][\A c, u \in Slots :
       (/\ tasks[c].kind = "create" /\ tasks[c].pc = "gotAnswer"
        /\ tasks'[c].pc = "done"
        /\ tasks[u].kind = "delete" /\ tasks[u].pc = "done" /\ tasks[u].resp.code = 200
        /\ SelectById(db, tasks[c].id) = {})
         => SelectById(db', tasks[c].id) # {}]_vars

\* C12, amended: the write of the background function of a POST /ssl whose
\* row has been removed meanwhile finds no row and writes none; an id without
\* a row gets one only in the step in which a POST /ssl answered with that id
\* writes.
C12_NoResurrection ==
  [][/\ \A c \in Slots :
          (/\ tasks[c].kind = "create" /\ tasks[c].pc = "gotAnswer"
           /\ tasks'[c].pc = "done"
           /\ SelectById(db, tasks[c].id) = {})
            => /\ SelectById(db', tasks[c].id) = {}
               /\ db' = db
               /\ tasks'[c].log[Len(tasks'[c].log)] = "store_miss"
     /\ \A x \in Ids :
          (SelectById(db, x) = {} /\ SelectById(db', x) # {}) =>
             \E t \in Slots : /\ tasks[t].pc = "awaitCreate"
                              /\ Polling(tasks'[t])
                              /\ tasks'[t].id = x]_vars

\* a DELETE /ssl/:id was answered 200 while the background function of the
\* POST /ssl polled, its UPDATE then found no row, and the table is empty
C12_Witness ==
  \E c, u \in Slots :
    /\ tasks[c].kind = "create" /\ tasks[c].pc = "done"
    /\ tasks[c].log = <<"create_call", "store_write", "response", "get_call",
                        "get_ok", "store_miss">>
    /\ tasks[u].kind = "delete" /\ tasks[u].pc = "done" /\ tasks[u].resp.code = 200
    /\ db = {}

\* C13: when the background function of a POST /ssl and a recheck both hold
\* an answer of Cloudflare for one id, either may write first: the write of
\* each is enabled, and the write of the one leaves the other with its answer
\* and still to write.  Every such write sets the status of the row of its id
\* to the status of its own answer, whatever the row held and whenever the
\* answer was fetched, so the row shows the status of the write that came
\* last.
C13_LastWriteWins ==
  /\ [](\A c, r \in Slots :
          (/\ tasks[c].kind = "create" /\ tasks[c].pc = "gotAnswer"
           /\ tasks[r].kind = "recheck" /\ tasks[r].pc = "gotAnswer"
           /\ tasks[c].id = tasks[r].id)
            => (ENABLED BackgroundResolves(c)) /\ (ENABLED RecheckResolves(r)))
  /\ [][\A t, u \in Slots :
          (/\ tasks[t].kind \in {"create", "recheck"} /\ tasks[t].pc = "gotAnswer"
           /\ tasks'[t].pc = "done")
            => /\ \A row \in SelectById(db', tasks[t].id) :
                    row.status = tasks[t].answer.status
               /\ SelectById(db, tasks[t].id) # {} => SelectById(db', tasks[t].id) # {}
               /\ (u # t /\ tasks[u].pc = "gotAnswer") =>
                    /\ tasks'[u].pc = "gotAnswer"
                    /\ tasks'[u].id = tasks[u].id
                    /\ tasks'[u].answer = tasks[u].answer]_vars

\* the recheck wrote "active" and answered it, the background function of the
\* POST /ssl wrote "pending" after it, and the row shows "pending"
C13_Witness ==
  \E c, r \in Slots :
    /\ tasks[c].kind = "create" /\ tasks[c].pc = "done"
    /\ tasks[c].log[Len(tasks[c].log)] = "store_write"
    /\ tasks[r].kind = "recheck" /\ tasks[r].pc = "done"
    /\ tasks[r].resp.code = 200 /\ tasks[r].resp.data.status = "active"
    /\ Count(tasks[r].log, "store_write") = 1
    /\ \E row \in db : row.id = tasks[r].resp.data.id /\ row.status = "pending"

\* C14: the step in which the third GET of the background poll of a POST /ssl
\* fails ends the task and changes neither the table nor any other task; the
\* task has sent three GETs, written nothing but the row of its INSERT and
\* answered once, and that answer stays the 200 with success true; the row,
\* if no other request wrote or removed it, still has status "pending".
C14_BackgroundFailureSwallowed ==
  [][\A t \in Slots :
       (tasks[t].kind = "create" /\ tasks[t].pc = "awaitGet" /\ tasks'[t].pc = "done")
         => /\ db' = db
            /\ \A u \in Slots \ {t} : tasks'[u] = tasks[u]
            /\ tasks'[t].resp = tasks[t].resp
            /\ tasks'[t].resp.code = 200 /\ tasks'[t].resp.success
            /\ Count(tasks'[t].log, "response") = 1
            /\ Count(tasks'[t].log, "get_call") = 3
            /\ Count(tasks'[t].log, "get_fail") = 3
            /\ Count(tasks'[t].log, "store_write") = 1
            /\ Count(tasks'[t].log, "store_miss") = 0
            /\ tasks[t].undisturbed =>
                 \E row \in db' : row.id = tasks[t].id /\ row.status = "pending"]_vars

\* the background poll of a POST /ssl failed three times and a read of the
\* row it left is answered "pending"
C14_Witness ==
  \E t, r \in Slots :
    /\ tasks[t].kind = "create" /\ tasks[t].pc = "done"
    /\ tasks[t].resp.code = 200
    /\ Count(tasks[t].log, "get_fail") = 3
    /\ tasks[r].kind = "read" /\ tasks[r].log = <<"response">>
    /\ tasks[r].resp.data.status = "pending"
    /\ tasks[r].resp.data \in db

\* C15: the step in which a handler that awaits Cloudflare (POST /ssl its
\* create call, PUT /ssl/:id its patch, DELETE /ssl/:id its delete, the
\* recheck its last GET) ends with a response that is not a success leaves
\* the table as it is and answers 500 with success false, once, after no
\* write and no delete; the POST /ssl has then sent no GET of a poll.  A
\* POST /ssl ends in the step that takes the answer of its create call only
\* when that call failed.
C15_FailureLeavesStore ==
  [][\A t \in Slots :
       (/\ \/ tasks[t].pc \in {"awaitCreate", "awaitPatch", "awaitDelete"}
            \/ (tasks[t].kind = "recheck" /\ tasks[t].pc = "awaitGet")
        /\ tasks'[t].pc = "done"
        /\ (~tasks'[t].resp.success \/ tasks[t].pc \in {"awaitCreate", "awaitGet"}))
         => /\ db' = db
            /\ tasks'[t].resp.code = 500
            /\ ~tasks'[t].resp.success
            /\ tasks'[t].log[Len(tasks'[t].log)] = "response"
            /\ Count(tasks'[t].log, "response") = 1
            /\ Count(tasks'[t].log, "store_write") = 0
            /\ Count(tasks'[t].log, "store_miss") = 0
            /\ Count(tasks'[t].log, "store_delete") = 0
            /\ tasks[t].pc = "awaitCreate" => Count(tasks'[t].log, "get_call") = 0
            /\ \A u \in Slots \ {t} : tasks'[u] = tasks[u]]_vars

\* a DELETE /ssl/:id and a PUT /ssl/:id that Cloudflare refused were both
\* answered 500 and the row is still in the table
C15_Witness ==
  \E t, u \in Slots :
    /\ tasks[t].kind = "delete" /\ tasks[t].pc = "done" /\ tasks[t].resp.code = 500
    /\ tasks[u].kind = "update" /\ tasks[u].pc = "done" /\ tasks[u].resp.code = 500
    /\ db # {}

\* C16 as stated: when PUT /ssl/:id answers 200 with the record Cloudflare
\* returned, the table holds a row of that id with the status of that record,
\* whether or not it held a row of that id before.
C16_UpdateUpserts ==
  [][\A t \in Slots :
       (tasks[t].pc = "awaitPatch" /\ tasks'[t].pc = "done" /\ tasks'[t].resp.code = 200)
         => \E row \in db' : /\ row.id = tasks[t].id
                              /\ row.status = tasks'[t].resp.data.status]_vars

\* C16, amended: PUT /ssl/:id looks up nothing locally and, when the patch
\* succeeds, answers 200 with the record returned whether or not the table
\* has a row of that id; the row of that id, if there is one, then has the
\* status of that record and its id, hostname and created_at as before; if
\* there is none, none is written and the table is as it was; the rows of
\* other ids are as they were.
C16_UpdateWritesExistingRow ==
  [][\A t \in Slots :
       (tasks[t].pc = "awaitPatch" /\ tasks'[t].pc = "done" /\ tasks'[t].resp.success)
         => /\ tasks'[t].resp.code = 200
            /\ tasks'[t].resp.data.id = tasks[t].id
            /\ tasks'[t].log = <<"patch_call", WriteEvent(db, tasks[t].id), "response">>
            /\ {r.id : r \in db'} = {r.id : r \in db}
            /\ \A r \in db :
                 IF r.id = tasks[t].id
                 THEN \E r2 \in db' : /\ r2.id = r.id /\ r2.hostname = r.hostname
                                      /\ r2.created_at = r.created_at
                                      /\ r2.status = tasks'[t].resp.data.status
                 ELSE r \in db'
            /\ SelectById(db, tasks[t].id) = {} =>
                 (db' = db /\ SelectById(db', tasks[t].id) = {})]_vars

\* one PUT /ssl/:id set the row of its id to "active", another, for an id
\* without a row, was answered 200 "active" too and wrote nothing
C16_Witness ==
  \E t, u \in Slots :
    /\ tasks[t].kind = "update" /\ tasks[t].resp.code = 200
    /\ tasks[t].log = <<"patch_call", "store_miss", "response">>
    /\ tasks[t].resp.data.status = "active"
    /\ SelectById(db, tasks[t].resp.data.id) = {}
    /\ tasks[u].kind = "update" /\ tasks[u].resp.code = 200
    /\ tasks[u].log = <<"patch_call", "store_write", "response">>
    /\ tasks[u].resp.data.status = "active"
    /\ \E row \in db : row.id = tasks[u].resp.data.id /\ row.status = "active"

\* slot t takes up a request in this step (and is not merely told that the
\* row of its finished POST /ssl was written or removed)
TakesUp(t) ==
  /\ Free(t)
  /\ tasks'[t] # tasks[t]
  /\ ~(tasks[t].undisturbed /\ tasks'[t].log = tasks[t].log)

\* C17: a POST /ssl without hostname is answered 400, and a recheck of a
\* hostname without a local row 404, in the step in which the request
\* arrives: with success false, as the only thing the handler does (no call
\* to Cloudflare, no poll, no background function), the table and the other
\* tasks left as they are.
C17_LocalRejection ==
  [][\A t \in Slots :
       /\ (/\ TakesUp(t)
           /\ tasks'[t].kind = "create" /\ tasks'[t].hostname = NoHostname)
            => /\ tasks'[t].pc = "done"
               /\ tasks'[t].resp.code = 400 /\ ~tasks'[t].resp.success
               /\ tasks'[t].log = <<"response">>
               /\ db' = db
               /\ \A u \in Slots \ {t} : tasks'[u] = tasks[u]
       /\ \A h \in Hostnames :
            (RecheckHostname(t, h) /\ SelectByHostname(db, h) = {})
              => /\ tasks'[t].pc = "done"
                 /\ tasks'[t].resp.code = 404 /\ ~tasks'[t].resp.success
                 /\ tasks'[t].log = <<"response">>
                 /\ db' = db
                 /\ \A u \in Slots \ {t} : tasks'[u] = tasks[u]]_vars

\* a POST /ssl without hostname was answered 400 and a recheck of a hostname
\* without a row 404, while the table holds the row of another hostname
C17_Witness ==
  \E t, u \in Slots :
    /\ tasks[t].kind = "create" /\ tasks[t].resp.code = 400
    /\ tasks[u].kind = "recheck" /\ tasks[u].resp.code = 404
    /\ Cardinality(db) = 1

\* C18: a GET /ssl/h for a hostname with a local row, and a GET /ssl, are
\* answered 200 in the step in which the request arrives, as the only thing
\* the handler does (no call to Cloudflare), the table left as it is; the
\* read answers the row of h as the table holds it, the list every row of
\* the table once, no row before one with a later created_at.
C18_LocalReads ==
  [][\A t \in Slots :
       /\ \A h \in Hostnames :
            (ReadsHostname(t, h) /\ SelectByHostname(db, h) # {})
              => /\ tasks'[t].pc = "done"
                 /\ tasks'[t].resp.code = 200 /\ tasks'[t].resp.success
                 /\ tasks'[t].resp.data \in db
                 /\ tasks'[t].resp.data.hostname = h
                 /\ tasks'[t].log = <<"response">>
                 /\ db' = db
       /\ (TakesUp(t) /\ tasks'[t].kind = "list")
            => /\ tasks'[t].pc = "done"
               /\ tasks'[t].resp.code = 200 /\ tasks'[t].resp.success
               /\ tasks'[t].log = <<"response">>
               /\ db' = db
               /\ Len(tasks'[t].resp.data) = Cardinality(db)
               /\ {tasks'[t].resp.data[k] : k \in 1..Len(tasks'[t].resp.data)} = db
               /\ \A j, k \in 1..Len(tasks'[t].resp.data) :
                    j < k => tasks'[t].resp.data[j].created_at
                               >= tasks'[t].resp.data[k].created_at]_vars

\* a list of two rows, the one created a second later first
C18_Witness ==
  \E t \in Slots :
    /\ tasks[t].kind = "list" /\ tasks[t].pc = "done"
    /\ Len(tasks[t].resp.data) = 2
    /\ tasks[t].resp.data[1].created_at > tasks[t].resp.data[2].created_at
    /\ tasks[t].resp.data[1].status = "active"

\* task t is the background function of a POST /ssl, or a recheck, inside
\* fetchCloudflareStatus
Reconciling(t) == tasks[t].kind \in {"create", "recheck"} /\ Polling(tasks[t])

\* C19: when every GET settles and every timer fires, the background
\* function of every POST /ssl and every recheck that entered
\* fetchCloudflareStatus comes to its end.  It has then sent at most three
\* GETs and slept at most twice, each sleep right after a failed GET that was
\* not the third.  Until its end no step of another request changes anything
\* of it (but the note that its row was written or removed): each step takes
\* it on, from the GET to its answer, to the sleep or to the end, from the
\* sleep to the next GET, from the answer to the end.
C19_ReconciliationTerminates ==
  /\ [](\A t \in Slots : tasks[t].kind \in {"create", "recheck"} =>
          /\ Count(tasks[t].log, "get_call") <= 3
          /\ Count(tasks[t].log, "sleep") <= 2
          /\ \A k \in 1..Len(tasks[t].log) : tasks[t].log[k] = "sleep" =>
               /\ tasks[t].log[k - 1] = "get_fail"
               /\ Count(SubSeq(tasks[t].log, 1, k), "get_fail") < 3)
  /\ [][\A t \in Slots :
          (Reconciling(t) /\ tasks'[t] # tasks[t]) =>
             \/ tasks'[t] = [tasks[t] EXCEPT !.undisturbed = FALSE]
             \/ /\ Len(tasks'[t].log) >= Len(tasks[t].log)
                /\ SubSeq(tasks'[t].log, 1, Len(tasks[t].log)) = tasks[t].log
                /\ tasks'[t].kind = tasks[t].kind
                /\ \/ tasks[t].pc = "awaitGet" /\ tasks'[t].pc \in {"gotAnswer", "sleep", "done"}
                   \/ tasks[t].pc = "sleep" /\ tasks'[t].pc = "awaitGet"
                   \/ tasks[t].pc = "gotAnswer" /\ tasks'[t].pc = "done"]_vars
  /\ \A t \in Slots : Reconciling(t) ~> (tasks[t].pc = "done")

\* while a DELETE /ssl/:id was answered 200, the background function of a
\* POST /ssl came to its end after three GETs and two sleeps
C19_Witness ==
  \E t, u \in Slots :
    /\ tasks[t].kind = "create" /\ tasks[t].pc = "done"
    /\ Count(tasks[t].log, "get_call") = 3
    /\ Count(tasks[t].log, "sleep") = 2
    /\ tasks[t].log[Len(tasks[t].log)] = "store_miss"
    /\ tasks[u].kind = "delete" /\ tasks[u].resp.code = 200

\* task t runs, in this step, the UPDATE of the background function of a
\* POST /ssl, of a recheck or of a PUT /ssl/:id
RunsUpdate(t) ==
  /\ tasks'[t].pc = "done"
  /\ \/ tasks[t].kind \in {"create", "recheck"} /\ tasks[t].pc = "gotAnswer"
     \/ tasks[t].pc = "awaitPatch" /\ tasks'[t].resp.success

\* C20: an UPDATE of the background function of a POST /ssl, of a recheck or
\* of a PUT /ssl/:id leaves every row of another id as it is and the row of
\* its id with the same id, hostname and created_at, and adds and removes no
\* row; when no row has its id (a second POST /ssl replaced the row of the
\* hostname by one of another id) it leaves the table as it is.  A row whose
\* id, hostname and created_at no row had before appears only in the step in
\* which a POST /ssl writes.
C20_WriteFrame ==
  [][/\ \A t \in Slots : RunsUpdate(t) =>
          /\ Cardinality(db') = Cardinality(db)
          /\ \A r \in db :
               IF r.id = tasks[t].id
               THEN \E r2 \in db' : /\ r2.id = r.id /\ r2.hostname = r.hostname
                                    /\ r2.created_at = r.created_at
               ELSE r \in db'
          /\ SelectById(db, tasks[t].id) = {} => db' = db
     /\ \A r2 \in db' :
          (\A r \in db : ~(/\ r.id = r2.id /\ r.hostname = r2.hostname
                            /\ r.created_at = r2.created_at))
            => \E t \in Slots : /\ tasks[t].pc = "awaitCreate"
                                /\ Polling(tasks'[t])
                                /\ tasks'[t].id = r2.id]_vars

\* a second POST /ssl replaced the row of the first; a second later the
\* background function of the first ran its UPDATE, which found no row, and
\* the row of the second is as it was written
C20_Witness ==
  \E c, u \in Slots :
    /\ tasks[c].kind = "create" /\ tasks[c].pc = "done"
    /\ tasks[c].log[Len(tasks[c].log)] = "store_miss"
    /\ tasks[u].kind = "create" /\ Polling(tasks[u]) /\ tasks[u].undisturbed
    /\ \E row \in db : /\ row.id = tasks[u].id /\ row.status = "pending"
                        /\ row.updated_at < now
    /\ Cardinality(db) = 1

====
